---- MODULE Spec2Model ----
(***************************************************************************)
(* Model of scrapers/steam_curator_dump.py: the text helpers               *)
(* (normalize_base_url, sanitize_review_text, is_date_like), the record    *)
(* extractor of SteamCuratorDumper (_parse_reviews_html and                *)
(* _pick_best_review_text) and the pagination loop (fetch_reviews).        *)
(*                                                                         *)
(* A Python string is a sequence of characters.  A character is an atom:   *)
(* a printable ASCII character stands for itself, the others are named     *)
(*   "SP" space, "LF" newline, "TAB" tab, "BS" backslash, "DQ" double      *)
(*   quote, "RING" U+B9C1, "KEU" U+D06C, "NYEON" U+B144, "WOL" U+C6D4,     *)
(*   "IL" U+C77C.                                                          *)
(***************************************************************************)
EXTENDS Integers, Sequences, FiniteSets, TLC

VARIABLES
    pc,          \* position of the modelled call
    raw,         \* normalize_base_url: the argument
    base,        \* normalize_base_url: the returned string
    text,        \* sanitize_review_text: the argument of the first call
    san1,        \* result of sanitize_review_text(text)
    san2,        \* result of sanitize_review_text(san1.clean)
    candidates,  \* _pick_best_review_text: the candidates collected
    best,        \* _pick_best_review_text: the returned text
    dom,         \* _parse_reviews_html: the parsed fragment (soup)
    link,        \* the anchor the container walk starts from
    container,   \* the container the walk returned
    rec_type,    \* the sentiment decided for the container
    todo,        \* _parse_reviews_html: the anchors of app_links still to visit
    results,     \* _parse_reviews_html: results
    seen,        \* _parse_reviews_html: seen
    batch_size,  \* SteamCuratorDumper.batch_size
    total,       \* fetch_reviews: total
    start,       \* fetch_reviews: start
    all_reviews, \* fetch_reviews: all_reviews
    requests,    \* the number of page requests fetch_reviews has made
    returned     \* fetch_reviews: the list returned, once pc is "done"

textVars == <<raw, base, text, san1, san2>>
pickVars == <<candidates, best>>
walkVars == <<link, container, rec_type>>
parseVars == <<todo, results, seen>>
fetchVars == <<batch_size, total, start, all_reviews, requests, returned>>
vars == <<pc, textVars, pickVars, dom, walkVars, parseVars, fetchVars>>

None == "None"

(***************************************************************************)
(* Strings                                                                 *)
(***************************************************************************)

\* the characters str.strip() removes and the regex class \s matches
Whitespace == {"SP", "LF", "TAB"}

RECURSIVE Concat(_)
\* the concatenation of a sequence of strings
Concat(ss) == IF ss = <<>> THEN <<>> ELSE Head(ss) \o Concat(Tail(ss))

\* s[i:]
From(s, i) == SubSeq(s, i, Len(s))

\* s.startswith(p, i-1)
StartsWithAt(s, p, i) ==
    /\ i + Len(p) - 1 <= Len(s)
    /\ SubSeq(s, i, i + Len(p) - 1) = p

\* p in s
Contains(s, p) == \E i \in 1..(Len(s) + 1) : StartsWithAt(s, p, i)

\* s.endswith(p)
EndsWith(s, p) == Len(p) <= Len(s) /\ From(s, Len(s) - Len(p) + 1) = p

RECURSIVE LStrip(_)
LStrip(s) ==
    IF s # <<>> /\ Head(s) \in Whitespace THEN LStrip(Tail(s)) ELSE s

RECURSIVE RStripSet(_, _)
\* s without its longest suffix of characters of set cs
RStripSet(s, cs) ==
    IF s # <<>> /\ s[Len(s)] \in cs
    THEN RStripSet(SubSeq(s, 1, Len(s) - 1), cs)
    ELSE s

\* s.strip()
Strip(s) == RStripSet(LStrip(s), Whitespace)

RECURSIVE Replace(_, _, _)
\* s.replace(p, r), p non-empty: leftmost non-overlapping occurrences
Replace(s, p, r) ==
    IF s = <<>> THEN <<>>
    ELSE IF StartsWithAt(s, p, 1)
         THEN r \o Replace(From(s, Len(p) + 1), p, r)
         ELSE <<Head(s)>> \o Replace(Tail(s), p, r)

RECURSIVE RunLen(_, _, _)
\* the length of the longest run of characters of set cs that starts at s[i]
RunLen(s, i, cs) ==
    IF i <= Len(s) /\ s[i] \in cs THEN 1 + RunLen(s, i + 1, cs) ELSE 0

RECURSIVE RunLenNot(_, _, _)
\* the length of the longest run of characters outside cs that starts at s[i]
RunLenNot(s, i, cs) ==
    IF i <= Len(s) /\ s[i] \notin cs THEN 1 + RunLenNot(s, i + 1, cs) ELSE 0

(***************************************************************************)
(* normalize_base_url                                                      *)
(***************************************************************************)

EscapedSlash == <<"BS", "/">>
Slash == <<"/">>
Http == <<"h", "t", "t", "p", ":">>
Https == <<"h", "t", "t", "p", "s", ":">>

\* range(10) of the unescape loop
UnescapeRounds == 10

RECURSIVE Unescape(_, _)
\* for _ in range(n): if "\\/" not in s: break; s = s.replace("\\/", "/")
Unescape(s, n) ==
    IF n = 0 \/ ~Contains(s, EscapedSlash) THEN s
    ELSE Unescape(Replace(s, EscapedSlash, Slash), n - 1)

\* SchemeSub with the pattern ^(https?:) : the slashes after the scheme are kept
SchemeSub_KeepSlashes(s) ==
    LET scheme == IF StartsWithAt(s, Https, 1) THEN Https
                  ELSE IF StartsWithAt(s, Http, 1) THEN Http
                  ELSE <<>>
    IN IF scheme = <<>> THEN s
       ELSE scheme \o <<"/", "/">> \o From(s, Len(scheme) + 1)

\* re.sub(r"^(https?:)/*", r"\1//", s)
SchemeSub(s) ==
    LET scheme == IF StartsWithAt(s, Https, 1) THEN Https
                  ELSE IF StartsWithAt(s, Http, 1) THEN Http
                  ELSE <<>>
        k == Len(scheme)
    IN IF k = 0 THEN s
       ELSE scheme \o <<"/", "/">> \o From(s, k + 1 + RunLen(s, k + 1, {"/"}))

\* if not s.endswith("/"): s += "/"
EnsureSlash(s) == IF EndsWith(s, Slash) THEN s ELSE s \o Slash

\* the argument stripped, unescaped and with its backslashes removed
Unescaped(r) == Replace(Unescape(Strip(r), UnescapeRounds), <<"BS">>, <<>>)

normalize_base_url(r) == EnsureSlash(Strip(SchemeSub(Unescaped(r))))

(***************************************************************************)
(* sanitize_review_text                                                    *)
(***************************************************************************)

\* the characters that end a URL: [^\s"'<>]
UrlStop == Whitespace \cup {"DQ", "'", "<", ">"}

\* the length of the match of https?://[^\s"'<>]+ at s[i], 0 when none
UrlMatchLen(s, i) ==
    LET k == IF StartsWithAt(s, Https \o <<"/", "/">>, i) THEN 8
             ELSE IF StartsWithAt(s, Http \o <<"/", "/">>, i) THEN 7
             ELSE 0
        b == RunLenNot(s, i + k, UrlStop)
    IN IF k = 0 \/ b = 0 THEN 0 ELSE k + b

RECURSIVE UrlCount(_, _)
\* len(url_pattern.findall(text)), scanning from s[i]
UrlCount(s, i) ==
    IF i > Len(s) THEN 0
    ELSE LET m == UrlMatchLen(s, i)
         IN IF m > 0 THEN 1 + UrlCount(s, i + m) ELSE UrlCount(s, i + 1)

RECURSIVE UrlStrip(_, _)
\* url_pattern.sub("", text), scanning from s[i]
UrlStrip(s, i) ==
    IF i > Len(s) THEN <<>>
    ELSE LET m == UrlMatchLen(s, i)
         IN IF m > 0 THEN UrlStrip(s, i + m) ELSE <<s[i]>> \o UrlStrip(s, i + 1)

\* the length of the match of the marker regex (RING KEU \s* :) at s[i], 0 when none
MarkerMatchLen(s, i) ==
    IF StartsWithAt(s, <<"RING", "KEU">>, i)
    THEN LET w == RunLen(s, i + 2, Whitespace)
         IN IF StartsWithAt(s, <<":">>, i + 2 + w) THEN 3 + w ELSE 0
    ELSE 0

RECURSIVE MarkerStrip(_, _)
\* re.sub of the marker regex by "", scanning from s[i]
MarkerStrip(s, i) ==
    IF i > Len(s) THEN <<>>
    ELSE LET m == MarkerMatchLen(s, i)
         IN IF m > 0 THEN MarkerStrip(s, i + m)
            ELSE <<s[i]>> \o MarkerStrip(s, i + 1)

RECURSIVE CollapseNewlines(_)
\* re.sub(r"\n+", "\n", s)
CollapseNewlines(s) ==
    IF s = <<>> THEN <<>>
    ELSE IF Head(s) = "LF"
         THEN <<"LF">> \o CollapseNewlines(From(s, 1 + RunLen(s, 1, {"LF"})))
         ELSE <<Head(s)>> \o CollapseNewlines(Tail(s))

\* the character class of r"[,\\s]+$": a comma, a backslash, the letter s
TrailingClass == {",", "BS", "s"}

\* re.sub(r"[,\\s]+$", "", s) on a stripped s (no newline at its end)
TrailingStrip(s) == RStripSet(s, TrailingClass)

sanitize_review_text(t) ==
    IF t = <<>> THEN [clean |-> <<>>, has_url |-> FALSE, url_count |-> 0]
    ELSE LET n == UrlCount(t, 1)
             c1 == UrlStrip(t, 1)
             c2 == MarkerStrip(c1, 1)
             c3 == Strip(CollapseNewlines(c2))
         IN [clean |-> TrailingStrip(c3), has_url |-> n > 0, url_count |-> n]

(***************************************************************************)
(* is_date_like                                                            *)
(***************************************************************************)

Digit == {"0", "1", "2", "3", "4", "5", "6", "7", "8", "9"}

\* len(t) > 32: never date-like
DateMaxLen == 32

\* one item of a regular expression: between lo and hi characters of set cs
Rep(cs, lo, hi) == [cs |-> cs, lo |-> lo, hi |-> hi]

\* the literal string s as a sequence of items
Lit(s) == [i \in 1..Len(s) |-> Rep({s[i]}, 1, 1)]

\* \d{lo,hi}, \s+ and \s* (a string that is matched has at most DateMaxLen characters)
Digits(lo, hi) == <<Rep(Digit, lo, hi)>>
Spaces1 == <<Rep(Whitespace, 1, DateMaxLen)>>
Spaces0 == <<Rep(Whitespace, 0, DateMaxLen)>>

RECURSIVE ReMatch(_, _, _)
\* re.match("^" + pat + "$", t[i-1:]) for a stripped t: the items of pat, each
\* repeated within its bounds, consume t from t[i] to its end
ReMatch(t, i, pat) ==
    IF pat = <<>> THEN i = Len(t) + 1
    ELSE LET it == Head(pat)
             run == RunLen(t, i, it.cs)
             most == IF run < it.hi THEN run ELSE it.hi
         IN \E k \in it.lo..most : ReMatch(t, i + k, Tail(pat))

Months ==
    {<<"J", "a", "n", "u", "a", "r", "y">>,
     <<"F", "e", "b", "r", "u", "a", "r", "y">>,
     <<"M", "a", "r", "c", "h">>,
     <<"A", "p", "r", "i", "l">>,
     <<"M", "a", "y">>,
     <<"J", "u", "n", "e">>,
     <<"J", "u", "l", "y">>,
     <<"A", "u", "g", "u", "s", "t">>,
     <<"S", "e", "p", "t", "e", "m", "b", "e", "r">>,
     <<"O", "c", "t", "o", "b", "e", "r">>,
     <<"N", "o", "v", "e", "m", "b", "e", "r">>,
     <<"D", "e", "c", "e", "m", "b", "e", "r">>}

\* ^\d{1,2}\s+(January|...|December)(,\s*\d{4})?$
DateEnglish(t) ==
    \E m \in Months :
        \/ ReMatch(t, 1, Digits(1, 2) \o Spaces1 \o Lit(m))
        \/ ReMatch(t, 1, Digits(1, 2) \o Spaces1 \o Lit(m) \o Lit(<<",">>)
                          \o Spaces0 \o Digits(4, 4))

\* ^\d{4}-\d{2}-\d{2}$
DateIso(t) ==
    ReMatch(t, 1, Digits(4, 4) \o Lit(<<"-">>) \o Digits(2, 2) \o Lit(<<"-">>)
                   \o Digits(2, 2))

\* ^\d{4}\.\d{1,2}\.\d{1,2}\.?$
DateDotted(t) ==
    ReMatch(t, 1, Digits(4, 4) \o Lit(<<".">>) \o Digits(1, 2) \o Lit(<<".">>)
                   \o Digits(1, 2) \o <<Rep({"."}, 0, 1)>>)

\* ^\d{4}NYEON\s*\d{1,2}WOL\s*\d{1,2}IL$
DateKorean(t) ==
    ReMatch(t, 1, Digits(4, 4) \o Lit(<<"NYEON">>) \o Spaces0 \o Digits(1, 2)
                   \o Lit(<<"WOL">>) \o Spaces0 \o Digits(1, 2) \o Lit(<<"IL">>))

is_date_like(s) ==
    LET t == Strip(s)
    IN IF t = <<>> THEN FALSE
       ELSE IF Len(t) > DateMaxLen THEN FALSE
       ELSE DateEnglish(t) \/ DateIso(t) \/ DateDotted(t) \/ DateKorean(t)

(***************************************************************************)
(* _pick_best_review_text: the selection among the collected candidates    *)
(***************************************************************************)

RECURSIVE SelectFrom_KeepLast(_, _)
\* the selection loop with len(txt) >= len(best): the last longest is kept
SelectFrom_KeepLast(cands, best0) ==
    IF cands = <<>> THEN best0
    ELSE LET txt == Head(cands)
         IN IF is_date_like(txt) THEN SelectFrom_KeepLast(Tail(cands), best0)
            ELSE IF Len(txt) >= Len(best0) THEN SelectFrom_KeepLast(Tail(cands), txt)
            ELSE SelectFrom_KeepLast(Tail(cands), best0)

RECURSIVE SelectFrom(_, _)
\* for txt in candidates: if is_date_like(txt): continue
\*                        if len(txt) > len(best): best = txt
SelectFrom(cands, best0) ==
    IF cands = <<>> THEN best0
    ELSE LET txt == Head(cands)
         IN IF is_date_like(txt) THEN SelectFrom(Tail(cands), best0)
            ELSE IF Len(txt) > Len(best0) THEN SelectFrom(Tail(cands), txt)
            ELSE SelectFrom(Tail(cands), best0)

\* best = ""; the loop; return best
SelectBest(cands) == SelectFrom(cands, <<>>)

(***************************************************************************)
(* The parsed fragment                                                     *)
(*                                                                         *)
(* dom is the sequence of the nodes of the BeautifulSoup tree in document  *)
(* order.  dom[1] is the BeautifulSoup object itself (name "[document]",   *)
(* parent None, written 0).  A node holds its tag name, the list of its    *)
(* class tokens ([] when it has no class attribute), its href (NoHref when *)
(* absent) and the string it directly holds before its child elements.     *)
(***************************************************************************)

\* the href of a node that has none
NoHref == <<None>>

\* a regular expression that does not match (a matched group is never empty here)
NoMatch == <<>>

Node(parent, name, class, href, txt) ==
    [parent |-> parent, name |-> name, class |-> class, href |-> href, text |-> txt]

RECURSIVE Join(_, _)
\* sep.join(ss)
Join(ss, sep) ==
    IF ss = <<>> THEN <<>>
    ELSE IF Len(ss) = 1 THEN Head(ss)
    ELSE Head(ss) \o sep \o Join(Tail(ss), sep)

\* cls = node.get("class", []); cls_str = " ".join(cls)
ClassStr(d, n) == Join(d[n].class, <<"SP">>)

RECURSIVE IsAncestor(_, _, _)
\* c is a proper ancestor of n
IsAncestor(d, c, n) ==
    LET p == d[n].parent
    IN p # 0 /\ (p = c \/ IsAncestor(d, c, p))

RECURSIVE Ascending(_, _, _)
\* the members of set ns between lo and hi, in increasing (document) order
Ascending(ns, lo, hi) ==
    IF lo > hi THEN <<>>
    ELSE (IF lo \in ns THEN <<lo>> ELSE <<>>) \o Ascending(ns, lo + 1, hi)

\* the descendants of c in document order (c.descendants, tags only)
Descendants(d, c) ==
    Ascending({n \in 1..Len(d) : IsAncestor(d, c, n)}, 1, Len(d))

RECURSIVE MapNonEmptyStripped(_, _)
\* the stripped, non-empty strings held by the nodes ns
MapNonEmptyStripped(d, ns) ==
    IF ns = <<>> THEN <<>>
    ELSE LET t == Strip(d[Head(ns)].text)
         IN (IF t = <<>> THEN <<>> ELSE <<t>>) \o MapNonEmptyStripped(d, Tail(ns))

\* elem.get_text("\n", strip=True)
GetText(d, n) ==
    Join(MapNonEmptyStripped(d, <<n>> \o Descendants(d, n)), <<"LF">>)

(***************************************************************************)
(* _pick_best_review_text: the collection of the candidates                *)
(***************************************************************************)

S_recommendation_desc ==
    <<"r", "e", "c", "o", "m", "m", "e", "n", "d", "a", "t", "i", "o", "n",
      "_", "d", "e", "s", "c">>
S_recommendation_desc_text ==
    <<"r", "e", "c", "o", "m", "m", "e", "n", "d", "a", "t", "i", "o", "n",
      "_", "d", "e", "s", "c", "_", "t", "e", "x", "t">>
S_curator_review ==
    <<"c", "u", "r", "a", "t", "o", "r", "_", "r", "e", "v", "i", "e", "w">>
S_curator_review_desc ==
    <<"c", "u", "r", "a", "t", "o", "r", "_", "r", "e", "v", "i", "e", "w",
      "_", "d", "e", "s", "c">>
S_blurb ==
    <<"b", "l", "u", "r", "b">>
S_desc ==
    <<"d", "e", "s", "c">>

\* selectors
Selectors ==
    <<S_recommendation_desc, S_recommendation_desc_text, S_curator_review,
      S_curator_review_desc, S_blurb, S_desc>>

\* container.find(class_=re.compile(pat)) taken as the last match
FindFirst_Last(d, c, pat) ==
    LET ms == {n \in 1..Len(d) :
                   IsAncestor(d, c, n) /\ Contains(ClassStr(d, n), pat)}
    IN IF ms = {} THEN 0 ELSE CHOOSE n \in ms : \A m \in ms : m <= n

\* container.find(class_=re.compile(pat)): the first descendant, in document
\* order, whose class matches pat; 0 when none
FindFirst(d, c, pat) ==
    LET ms == {n \in 1..Len(d) :
                   IsAncestor(d, c, n) /\ Contains(ClassStr(d, n), pat)}
    IN IF ms = {} THEN 0 ELSE CHOOSE n \in ms : \A m \in ms : n <= m

RECURSIVE PhaseA(_, _, _)
\* for pat in selectors: elem = container.find(...);
\*     if elem: txt = elem.get_text("\n", strip=True); if txt: candidates.append(txt)
PhaseA(d, c, pats) ==
    IF pats = <<>> THEN <<>>
    ELSE LET elem == FindFirst(d, c, Head(pats))
             txt == IF elem = 0 THEN <<>> ELSE GetText(d, elem)
         IN (IF txt # <<>> THEN <<txt>> ELSE <<>>) \o PhaseA(d, c, Tail(pats))

\* find_all(["div", "span", "p"], limit=60)
FallbackTags == {"div", "span", "p"}
FallbackLimit == 60
\* len(txt) >= 8
FallbackMinLen == 8

S_date ==
    <<"d", "a", "t", "e">>
S_posted ==
    <<"p", "o", "s", "t", "e", "d">>
S_time ==
    <<"t", "i", "m", "e">>
S_timestamp ==
    <<"t", "i", "m", "e", "s", "t", "a", "m", "p">>

\* any(k in cls_str for k in ["date", "posted", "time", "timestamp"])
DateClass(d, n) ==
    \E k \in {S_date, S_posted, S_time, S_timestamp} : Contains(ClassStr(d, n), k)

RECURSIVE FallbackScan(_, _)
\* for elem in elems: skip a date class; txt = get_text; keep len(txt) >= 8
FallbackScan(d, elems) ==
    IF elems = <<>> THEN <<>>
    ELSE LET elem == Head(elems)
             txt == GetText(d, elem)
         IN (IF ~DateClass(d, elem) /\ Len(txt) >= FallbackMinLen
             THEN <<txt>> ELSE <<>>) \o FallbackScan(d, Tail(elems))

PhaseB(d, c) ==
    LET found == SelectSeq(Descendants(d, c), LAMBDA n : d[n].name \in FallbackTags)
        elems == SubSeq(found, 1, IF Len(found) < FallbackLimit THEN Len(found)
                                  ELSE FallbackLimit)
    IN FallbackScan(d, elems)

\* candidates after both phases: if not candidates: (Phase B)
CollectCandidates(d, c) ==
    LET a == PhaseA(d, c, Selectors)
    IN IF a # <<>> THEN a ELSE PhaseB(d, c)

pick_best_review_text(d, c) == SelectBest(CollectCandidates(d, c))

(***************************************************************************)
(* _parse_reviews_html: the container walk and the sentiment               *)
(***************************************************************************)

S_recommend ==
    <<"r", "e", "c", "o", "m", "m", "e", "n", "d">>
S_curator ==
    <<"c", "u", "r", "a", "t", "o", "r">>
S_not_recommended ==
    <<"n", "o", "t", "_", "r", "e", "c", "o", "m", "m", "e", "n", "d", "e",
      "d">>
S_negative ==
    <<"n", "e", "g", "a", "t", "i", "v", "e">>
S_informational ==
    <<"i", "n", "f", "o", "r", "m", "a", "t", "i", "o", "n", "a", "l">>

\* for _ in range(14)
WalkLimit == 14
\* for _ in range(10)
ClassLimit == 10

\* getattr(parent, "name", None) == "div" and
\* ("recommend" in cls_str) or ("curator" in cls_str)
IsRecordDiv(d, n) ==
    /\ d[n].name = "div"
    /\ Contains(ClassStr(d, n), S_recommend) \/ Contains(ClassStr(d, n), S_curator)

RECURSIVE Walk_Topmost(_, _, _)
\* the walk without its break at a qualifying div: it ends at the last
\* ancestor reached
Walk_Topmost(d, node, k) ==
    IF k = 0 THEN node
    ELSE LET parent == d[node].parent
         IN IF parent = 0 THEN node
            ELSE Walk_Topmost(d, parent, k - 1)

RECURSIVE Walk(_, _, _)
\* the k remaining rounds of: parent = container.parent; if not parent: break;
\* if parent is a qualifying div: container = parent; break; container = parent
Walk(d, node, k) ==
    IF k = 0 THEN node
    ELSE LET parent == d[node].parent
         IN IF parent = 0 THEN node
            ELSE IF IsRecordDiv(d, parent) THEN parent
            ELSE Walk(d, parent, k - 1)

\* container = link; the walk
LocateContainer(d, link0) == Walk(d, link0, WalkLimit)

RECURSIVE ClassAcc(_, _, _)
\* the k remaining rounds of: if not cur: break; cls_acc.extend(cur.get("class", []));
\* cur = cur.parent
ClassAcc(d, cur, k) ==
    IF k = 0 \/ cur = 0 THEN <<>>
    ELSE d[cur].class \o ClassAcc(d, d[cur].parent, k - 1)

\* the decision with its first two branches exchanged
RecType_InformationalFirst(cls_str) ==
    IF Contains(cls_str, S_informational) THEN "informational"
    ELSE IF Contains(cls_str, S_not_recommended) \/ Contains(cls_str, S_negative)
    THEN "not_recommended"
    ELSE "recommended"

\* if "not_recommended" in cls_str or "negative" in cls_str: ... elif ... else ...
RecType(cls_str) ==
    IF Contains(cls_str, S_not_recommended) \/ Contains(cls_str, S_negative)
    THEN "not_recommended"
    ELSE IF Contains(cls_str, S_informational) THEN "informational"
    ELSE "recommended"

\* cls_acc of the container; cls_str = " ".join(cls_acc); the decision
Classify(d, cont) ==
    RecType(Join(ClassAcc(d, cont, ClassLimit), <<"SP">>))

(***************************************************************************)
(* _parse_reviews_html: the records                                        *)
(***************************************************************************)

S_app ==
    <<"/", "a", "p", "p", "/">>
S_store ==
    <<"h", "t", "t", "p", "s", ":", "/", "/", "s", "t", "o", "r", "e", ".",
      "s", "t", "e", "a", "m", "p", "o", "w", "e", "r", "e", "d", ".", "c",
      "o", "m">>
S_clanid ==
    <<"/", "?", "c", "u", "r", "a", "t", "o", "r", "_", "c", "l", "a", "n",
      "i", "d", "=">>

\* self.curator_id (the quasarplay curator)
CuratorId ==
    <<"4", "2", "7", "8", "8", "1", "7", "8">>

\* re.search(r"/app/(\d+)", href): group 1 of the leftmost match, NoMatch
\* when there is none
AppIdOf(href) ==
    LET at == {i \in 1..Len(href) :
                   StartsWithAt(href, S_app, i) /\ RunLen(href, i + 5, Digit) > 0}
    IN IF at = {} THEN NoMatch
       ELSE LET i == CHOOSE j \in at : \A k \in at : j <= k
            IN SubSeq(href, i + 5, i + 4 + RunLen(href, i + 5, Digit))

\* soup.find_all("a"): the anchors whatever their href
AppLinks_AllAnchors(d) ==
    Ascending({n \in 1..Len(d) : d[n].name = "a"}, 1, Len(d))

\* soup.find_all("a", href=re.compile(r"/app/\d+")), in document order
AppLinks(d) ==
    Ascending({n \in 1..Len(d) :
                   /\ d[n].name = "a"
                   /\ d[n].href # NoHref
                   /\ AppIdOf(d[n].href) # NoMatch}, 1, Len(d))

\* s.split("?")[0]
BeforeQuery(s) == SubSeq(s, 1, RunLenNot(s, 1, {"?"}))

to_abs_steam_url(href) ==
    IF href = <<>> THEN <<>>
    ELSE LET h == Strip(href)
         IN IF StartsWithAt(h, Http \o <<"/", "/">>, 1)
               \/ StartsWithAt(h, Https \o <<"/", "/">>, 1)
            THEN BeforeQuery(h)
            ELSE IF StartsWithAt(h, <<"/">>, 1) THEN BeforeQuery(S_store \o h)
            ELSE BeforeQuery(h)

\* seen.add(appid) left out
SeenAdd_Forgotten(ids, appid) == ids

\* seen.add(appid)
SeenAdd(ids, appid) == ids \cup {appid}

\* the dict appended to results for the anchor link
BuildRecord(d, link0) ==
    LET href == d[link0].href
        appid == AppIdOf(href)
        cont == LocateContainer(d, link0)
        raw_review == pick_best_review_text(d, cont)
        san == sanitize_review_text(raw_review)
        abs == to_abs_steam_url(href)
    IN [appid |-> appid,
        url |-> IF abs # <<>> THEN abs ELSE S_store \o S_app \o appid,
        curator_url |-> S_store \o S_app \o appid \o S_clanid \o CuratorId,
        review |-> san.clean,
        review_has_url |-> san.has_url,
        review_url_count |-> san.url_count,
        type |-> Classify(d, cont)]

(***************************************************************************)
(* Inputs of the text helpers                                              *)
(***************************************************************************)

RECURSIVE Pieced(_, _)
\* the strings made of at most n pieces of set ps
Pieced(ps, n) ==
    IF n = 0 THEN {<<>>}
    ELSE LET shorter == Pieced(ps, n - 1)
         IN shorter \cup {p \o s : p \in ps, s \in shorter}

MaxUrlPieces == 5
MaxTextPieces == 4

UrlPieces ==
    {Http, Https, <<"/">>, <<"BS">>, <<"BS", "/">>, <<"SP">>, <<"x">>}

\* https:\/\/example.com\/curator\/1
ExampleRaw ==
    Https \o <<"BS", "/", "BS", "/">> \o <<"e", "x", "a", "m", "p", "l", "e", ".", "c", "o", "m">>
    \o <<"BS", "/">> \o <<"c", "u", "r", "a", "t", "o", "r">> \o <<"BS", "/", "1">>

\* https://example.com/curator/1/
ExampleBase ==
    Https \o <<"/", "/">> \o <<"e", "x", "a", "m", "p", "l", "e", ".", "c", "o", "m">>
    \o <<"/">> \o <<"c", "u", "r", "a", "t", "o", "r">> \o <<"/", "1", "/">>

TextPieces ==
    {<<"a">>, <<"s">>, <<",">>, <<"SP">>, <<"LF">>, <<"BS">>,
     <<"RING", "KEU">>, <<":">>, Http, <<"/", "/">>, <<"DQ">>}

(***************************************************************************)
(* Specifications                                                          *)
(***************************************************************************)

\* the variables a specification does not use
NoText == raw = None /\ base = None /\ text = None /\ san1 = None /\ san2 = None
NoPick == candidates = None /\ best = None
NoDom == dom = None
NoWalk == link = None /\ container = None /\ rec_type = None
NoParse == todo = None /\ results = None /\ seen = None
NoFetch ==
    /\ batch_size = None /\ total = None /\ start = None
    /\ all_reviews = None /\ requests = None /\ returned = None

InitNormalize ==
    /\ pc = "call"
    /\ raw \in Pieced(UrlPieces, MaxUrlPieces) \cup {ExampleRaw}
    /\ base = None
    /\ text = None /\ san1 = None /\ san2 = None
    /\ NoPick /\ NoDom /\ NoWalk /\ NoParse /\ NoFetch

Normalize ==
    /\ pc = "call"
    /\ base' = normalize_base_url(raw)
    /\ pc' = "done"
    /\ UNCHANGED <<raw, text, san1, san2, pickVars, dom, walkVars, parseVars, fetchVars>>

SpecNormalize == InitNormalize /\ [][Normalize]_vars

InitSanitize ==
    /\ pc = "call"
    /\ text \in Pieced(TextPieces, MaxTextPieces)
    /\ san1 = None /\ san2 = None
    /\ raw = None /\ base = None
    /\ NoPick /\ NoDom /\ NoWalk /\ NoParse /\ NoFetch

Sanitize ==
    /\ pc = "call"
    /\ san1' = sanitize_review_text(text)
    /\ pc' = "once"
    /\ UNCHANGED <<raw, base, text, san2, pickVars, dom, walkVars, parseVars, fetchVars>>

SanitizeAgain ==
    /\ pc = "once"
    /\ san2' = sanitize_review_text(san1.clean)
    /\ pc' = "twice"
    /\ UNCHANGED <<raw, base, text, san1, pickVars, dom, walkVars, parseVars, fetchVars>>

SpecSanitize == InitSanitize /\ [][Sanitize \/ SanitizeAgain]_vars

(***************************************************************************)
(* Inputs: texts, hrefs, class tokens and fragments                        *)
(***************************************************************************)

T_great ==
    <<"g", "r", "e", "a", "t">>
T_awful ==
    <<"a", "w", "f", "u", "l">>
T_fun ==
    <<"f", "u", "n", "SP", "b", "u", "t", "SP", "h", "a", "r", "d">>
T_long ==
    <<"A", "SP", "t", "i", "g", "h", "t", "SP", "r", "o", "g", "u", "e",
      "l", "i", "k", "e", "SP", "w", "i", "t", "h", "SP", "s", "u", "p",
      "e", "r", "b", "SP", "p", "i", "x", "e", "l", "SP", "a", "r", "t", ".">>
T_iso ==
    <<"2", "0", "2", "4", "-", "0", "1", "-", "1", "5">>
T_english ==
    <<"1", "5", "SP", "J", "a", "n", "u", "a", "r", "y", ",", "SP", "2",
      "0", "2", "4">>
T_korean ==
    <<"2", "0", "2", "4", "NYEON", "SP", "1", "WOL", "SP", "1", "5", "IL">>
T_amazing ==
    <<"A", "m", "a", "z", "i", "n", "g", "SP", "p", "a", "c", "i", "n",
      "g", "SP", "a", "n", "d", "SP", "a", "r", "t">>
T_clunky ==
    <<"C", "l", "u", "n", "k", "y", "SP", "m", "e", "n", "u", "s", "SP",
      "b", "u", "t", "SP", "f", "a", "i", "r", ".">>
T_buggy ==
    <<"B", "u", "g", "g", "y", "SP", "a", "n", "d", "SP", "u", "n", "b",
      "a", "l", "a", "n", "c", "e", "d", "SP", "h", "t", "t", "p", "s",
      ":", "/", "/", "x", ".", "c", "o", "/", "y">>
T_tiny ==
    <<"m", "e", "h">>
H_100 ==
    <<"/", "a", "p", "p", "/", "1", "0", "0">>
H_100x ==
    <<"/", "a", "p", "p", "/", "1", "0", "0", "/", "x", "?", "s", "n", "r",
      "=", "2">>
H_200 ==
    <<"h", "t", "t", "p", "s", ":", "/", "/", "s", ".", "c", "o", "/", "a",
      "p", "p", "/", "2", "0", "0", "/", "?", "s", "n", "r", "=", "1">>
H_300 ==
    <<"/", "a", "p", "p", "/", "3", "0", "0">>
H_nodigits ==
    <<"/", "a", "p", "p", "/">>
H_sub ==
    <<"/", "s", "u", "b", "/", "1", "0", "0">>
S_recommendation ==
    <<"r", "e", "c", "o", "m", "m", "e", "n", "d", "a", "t", "i", "o", "n">>
S_curator_block ==
    <<"c", "u", "r", "a", "t", "o", "r", "_", "b", "l", "o", "c", "k">>
S_color_not_recommended ==
    <<"c", "o", "l", "o", "r", "_", "n", "o", "t", "_", "r", "e", "c", "o",
      "m", "m", "e", "n", "d", "e", "d">>
S_color_informational ==
    <<"c", "o", "l", "o", "r", "_", "i", "n", "f", "o", "r", "m", "a", "t",
      "i", "o", "n", "a", "l">>
S_posted_date ==
    <<"p", "o", "s", "t", "e", "d", "_", "d", "a", "t", "e">>

\* the candidate texts of the selection: lengths 5, 5, 12, 40, 22, 22 and
\* three dates
CandTexts ==
    {T_great, T_awful, T_fun, T_long, T_amazing, T_clunky, T_iso, T_english,
     T_korean}

MaxCands == 3

RECURSIVE SeqsUpTo(_, _)
\* the sequences of at most n members of set S
SeqsUpTo(S, n) ==
    IF n = 0 THEN {<<>>}
    ELSE LET shorter == SeqsUpTo(S, n - 1)
         IN shorter \cup {<<x>> \o s : x \in S, s \in {t \in shorter : Len(t) = n - 1}}

RootNode == Node(0, "[document]", <<>>, NoHref, <<>>)

\* the wrappers an ancestor chain may hold, besides the plain div
WalkKinds ==
    << [name |-> "div", class |-> <<S_recommendation>>],
       [name |-> "span", class |-> <<S_curator_block>>],
       [name |-> "div", class |-> <<S_negative>>],
       [name |-> "div", class |-> <<S_informational>>],
       [name |-> "span", class |-> <<S_color_not_recommended>>],
       [name |-> "span", class |-> <<S_color_informational>>],
       [name |-> "div", class |-> <<S_not_recommended>>] >>

MaxDepth == 16

\* the fragment that is one chain: depth wrappers around one anchor; the
\* wrapper that is the l-th ancestor of the anchor is of kind mark[l] (0: a
\* plain div)
ChainDom(depth, mark) ==
    [i \in 1..(depth + 2) |->
        IF i = 1 THEN RootNode
        ELSE IF i = depth + 2 THEN Node(i - 1, "a", <<>>, H_100, T_great)
        ELSE LET k == mark[depth + 2 - i]
             IN IF k = 0 THEN Node(i - 1, "div", <<>>, NoHref, <<>>)
                ELSE Node(i - 1, WalkKinds[k].name, WalkKinds[k].class, NoHref, <<>>)]

\* the chains with at most two wrappers that are not plain
ChainDoms ==
    {ChainDom(q[1], [l \in 1..q[1] |-> IF l = q[2] THEN q[4]
                                        ELSE IF l = q[3] THEN q[5] ELSE 0]) :
        q \in {r \in (0..MaxDepth) \X (0..MaxDepth) \X (0..MaxDepth)
                      \X (1..Len(WalkKinds)) \X (1..Len(WalkKinds)) :
                  /\ r[2] <= r[1] /\ r[3] <= r[1]
                  /\ r[2] = 0 => r[3] = 0 /\ r[4] = 1
                  /\ r[3] = 0 => r[5] = 1
                  /\ r[3] # 0 => r[2] < r[3]}}

\* the elements a container may hold
ElemKinds ==
    << [name |-> "span", class |-> <<S_desc>>, text |-> T_fun],
       [name |-> "span", class |-> <<S_desc>>, text |-> T_long],
       [name |-> "span", class |-> <<S_desc>>, text |-> <<"SP">>],
       [name |-> "div", class |-> <<S_blurb>>, text |-> T_amazing],
       [name |-> "p", class |-> <<>>, text |-> T_clunky],
       [name |-> "span", class |-> <<>>, text |-> T_tiny],
       [name |-> "span", class |-> <<S_posted_date>>, text |-> T_amazing],
       [name |-> "b", class |-> <<>>, text |-> T_long],
       [name |-> "span", class |-> <<>>, text |-> T_iso],
       [name |-> "span", class |-> <<S_recommendation_desc>>, text |-> T_great] >>

MaxElems == 3

\* the fragment that is one container div holding the elements of kinds ks,
\* side by side or each inside the one before
ContainerDom(ks, nested) ==
    [i \in 1..(Len(ks) + 2) |->
        IF i = 1 THEN RootNode
        ELSE IF i = 2 THEN Node(1, "div", <<S_recommendation>>, NoHref, <<>>)
        ELSE LET e == ElemKinds[ks[i - 2]]
             IN Node(IF nested THEN i - 1 ELSE 2, e.name, e.class, NoHref, e.text)]

ContainerDoms ==
    {ContainerDom(ks, nested) :
        ks \in SeqsUpTo(1..Len(ElemKinds), MaxElems), nested \in BOOLEAN}

Elem(name, class, txt) == [name |-> name, class |-> class, text |-> txt]

\* the blocks of a fragment: a wrapper div holding anchors, then elements
BlockKinds ==
    << [wrap |-> <<S_recommendation>>, hrefs |-> <<H_100>>,
        elems |-> <<Elem("span", <<S_recommendation_desc>>, T_amazing)>>],
       [wrap |-> <<S_recommendation, S_negative>>, hrefs |-> <<H_200>>,
        elems |-> <<Elem("span", <<S_desc>>, T_buggy)>>],
       [wrap |-> <<S_recommendation, S_informational>>, hrefs |-> <<H_100x>>,
        elems |-> <<Elem("span", <<S_desc>>, T_fun)>>],
       [wrap |-> <<S_recommendation>>, hrefs |-> <<H_nodigits>>,
        elems |-> <<Elem("span", <<S_desc>>, T_clunky)>>],
       [wrap |-> <<S_recommendation>>, hrefs |-> <<H_200>>, elems |-> <<>>],
       [wrap |-> <<S_recommendation>>, hrefs |-> <<NoHref, H_sub>>,
        elems |-> <<Elem("span", <<S_desc>>, T_long)>>],
       [wrap |-> <<S_recommendation>>, hrefs |-> <<H_300>>,
        elems |-> <<Elem("span", <<S_posted_date>>, T_iso)>>],
       [wrap |-> <<S_recommendation>>, hrefs |-> <<H_100x, H_100>>,
        elems |-> <<Elem("span", <<S_desc>>, T_long)>>] >>

MaxBlocks == 3

\* the nodes of a block whose wrapper is node w
BlockNodes(b, w) ==
    <<Node(1, "div", b.wrap, NoHref, <<>>)>>
    \o [i \in 1..Len(b.hrefs) |-> Node(w, "a", <<>>, b.hrefs[i], <<>>)]
    \o [i \in 1..Len(b.elems) |->
           Node(w, b.elems[i].name, b.elems[i].class, NoHref, b.elems[i].text)]

RECURSIVE AppendBlocks(_, _)
AppendBlocks(d, ks) ==
    IF ks = <<>> THEN d
    ELSE AppendBlocks(d \o BlockNodes(BlockKinds[Head(ks)], Len(d) + 1), Tail(ks))

\* the fragment made of the blocks of kinds ks, side by side under the root
BlocksDom(ks) == AppendBlocks(<<RootNode>>, ks)

BlocksDoms == {BlocksDom(ks) : ks \in SeqsUpTo(1..Len(BlockKinds), MaxBlocks)}

(***************************************************************************)
(* Specifications of the extractor                                         *)
(***************************************************************************)

\* the selection of _pick_best_review_text on a list of candidates
InitSelect ==
    /\ pc = "call"
    /\ candidates \in SeqsUpTo(CandTexts, MaxCands)
    /\ best = None
    /\ NoText /\ NoDom /\ NoWalk /\ NoParse /\ NoFetch

Select ==
    /\ pc = "call"
    /\ best' = SelectBest(candidates)
    /\ pc' = "done"
    /\ UNCHANGED <<textVars, candidates, dom, walkVars, parseVars, fetchVars>>

SpecSelect == InitSelect /\ [][Select]_vars

\* _pick_best_review_text on a container
InitPick ==
    /\ pc = "call"
    /\ dom \in ContainerDoms
    /\ container = 2
    /\ link = None /\ rec_type = None
    /\ NoText /\ NoPick /\ NoParse /\ NoFetch

Pick ==
    /\ pc = "call"
    /\ candidates' = CollectCandidates(dom, container)
    /\ best' = SelectBest(candidates')
    /\ pc' = "done"
    /\ UNCHANGED <<textVars, dom, walkVars, parseVars, fetchVars>>

SpecPick == InitPick /\ [][Pick]_vars

\* the container walk and the sentiment of _parse_reviews_html on one anchor
InitWalk ==
    /\ pc = "call"
    /\ dom \in ChainDoms
    /\ link = Len(dom)
    /\ container = None /\ rec_type = None
    /\ NoText /\ NoPick /\ NoParse /\ NoFetch

Locate ==
    /\ pc = "call"
    /\ container' = LocateContainer(dom, link)
    /\ pc' = "located"
    /\ UNCHANGED <<textVars, pickVars, dom, link, rec_type, parseVars, fetchVars>>

ClassifyContainer ==
    /\ pc = "located"
    /\ rec_type' = Classify(dom, container)
    /\ pc' = "done"
    /\ UNCHANGED <<textVars, pickVars, dom, link, container, parseVars, fetchVars>>

SpecWalk == InitWalk /\ [][Locate \/ ClassifyContainer]_vars

\* _parse_reviews_html, one round of its loop at a time
InitParse ==
    /\ pc = "call"
    /\ dom \in BlocksDoms
    /\ NoText /\ NoPick /\ NoWalk /\ NoParse /\ NoFetch

ParseBegin ==
    /\ pc = "call"
    /\ todo' = AppLinks(dom)
    /\ results' = <<>>
    /\ seen' = {}
    /\ pc' = "loop"
    /\ UNCHANGED <<textVars, pickVars, dom, walkVars, fetchVars>>

\* if appid in seen: continue
ParseSkipSeen ==
    /\ pc = "loop" /\ todo # <<>>
    /\ AppIdOf(dom[Head(todo)].href) \in seen
    /\ todo' = Tail(todo)
    /\ UNCHANGED <<pc, textVars, pickVars, dom, walkVars, results, seen, fetchVars>>

\* results.append({...}); seen.add(appid)
ParseAppend ==
    /\ pc = "loop" /\ todo # <<>>
    /\ AppIdOf(dom[Head(todo)].href) \notin seen
    /\ results' = Append(results, BuildRecord(dom, Head(todo)))
    /\ seen' = SeenAdd(seen, AppIdOf(dom[Head(todo)].href))
    /\ todo' = Tail(todo)
    /\ UNCHANGED <<pc, textVars, pickVars, dom, walkVars, fetchVars>>

ParseReturn ==
    /\ pc = "loop" /\ todo = <<>>
    /\ pc' = "done"
    /\ UNCHANGED <<textVars, pickVars, dom, walkVars, parseVars, fetchVars>>

SpecParse ==
    InitParse /\ [][ParseBegin \/ ParseSkipSeen \/ ParseAppend \/ ParseReturn]_vars

(***************************************************************************)
(* fetch_reviews                                                           *)
(*                                                                         *)
(* A review is the record of a page: its appid and, to tell the copies of  *)
(* an id apart, the start of the page it came from.                        *)
(***************************************************************************)

MaxBatch == 3
MaxTotal == 4
AppIds == {"100", "200"}

\* the lists _parse_reviews_html may return for a page: no id twice
PageReviews(page) ==
    {[i \in 1..Len(ids) |-> [appid |-> ids[i], page |-> page]] :
        ids \in {q \in SeqsUpTo(AppIds, Cardinality(AppIds)) :
                     \A i, j \in 1..Len(q) : q[i] = q[j] => i = j}}

RECURSIVE RemoveFrom(_, _)
\* the loop of _remove_duplicates on the reviews left, ids being seen
RemoveFrom(reviews, ids) ==
    IF reviews = <<>> THEN <<>>
    ELSE LET review == Head(reviews)
         IN IF review.appid \notin ids
            THEN <<review>> \o RemoveFrom(Tail(reviews), ids \cup {review.appid})
            ELSE RemoveFrom(Tail(reviews), ids)

remove_duplicates(reviews) == RemoveFrom(reviews, {})

InitFetch ==
    /\ pc = "call"
    /\ batch_size \in 1..MaxBatch
    /\ total = 0 /\ start = 0 /\ all_reviews = <<>> /\ requests = 0
    /\ returned = <<>>
    /\ NoText /\ NoPick /\ NoDom /\ NoWalk /\ NoParse

\* total = self.get_total_count() is 0 (also when the count request raised):
\* return []
CountNothing ==
    /\ pc = "call"
    /\ returned' = <<>>
    /\ pc' = "done"
    /\ UNCHANGED <<textVars, pickVars, dom, walkVars, parseVars,
                   batch_size, total, start, all_reviews, requests>>

\* total = self.get_total_count() is not 0
CountSome ==
    /\ pc = "call"
    /\ \E t \in (-1..MaxTotal) \ {0} : total' = t
    /\ pc' = "loop"
    /\ UNCHANGED <<textVars, pickVars, dom, walkVars, parseVars,
                   batch_size, start, all_reviews, requests, returned>>

\* _fetch_filtered or _parse_reviews_html raises: start += batch_size; continue
PageRaises ==
    /\ pc = "loop" /\ start < total
    /\ requests' = requests + 1
    /\ start' = start + batch_size
    /\ UNCHANGED <<pc, textVars, pickVars, dom, walkVars, parseVars,
                   batch_size, total, all_reviews, returned>>

\* not data.get("success"), or results_html is empty: break
PageRefused ==
    /\ pc = "loop" /\ start < total
    /\ requests' = requests + 1
    /\ pc' = "return"
    /\ UNCHANGED <<textVars, pickVars, dom, walkVars, parseVars,
                   batch_size, total, start, all_reviews, returned>>

\* the page is parsed: extend, start += batch_size, break when it held no
\* record, sleep otherwise
PageParsed ==
    /\ pc = "loop" /\ start < total
    /\ requests' = requests + 1
    /\ \E reviews \in PageReviews(start) :
           /\ all_reviews' = all_reviews \o reviews
           /\ pc' = IF Len(reviews) <= 0 THEN "return" ELSE "loop"
    /\ start' = start + batch_size
    /\ UNCHANGED <<textVars, pickVars, dom, walkVars, parseVars,
                   batch_size, total, returned>>

\* the page is parsed and start advanced, then self.log or progress_callback
\* raises (whatever the page held), or time.sleep does (the page held a
\* record): the handler runs start += batch_size; continue
PageParsedThenRaises ==
    /\ pc = "loop" /\ start < total
    /\ requests' = requests + 1
    /\ \E reviews \in PageReviews(start) : all_reviews' = all_reviews \o reviews
    /\ start' = (start + batch_size) + batch_size
    /\ UNCHANGED <<pc, textVars, pickVars, dom, walkVars, parseVars,
                   batch_size, total, returned>>

\* while start < total: is false
LoopEnds ==
    /\ pc = "loop" /\ ~(start < total)
    /\ pc' = "return"
    /\ UNCHANGED <<textVars, pickVars, dom, walkVars, parseVars, fetchVars>>

\* unique = self._remove_duplicates(all_reviews); return unique
Return ==
    /\ pc = "return"
    /\ returned' = remove_duplicates(all_reviews)
    /\ pc' = "done"
    /\ UNCHANGED <<textVars, pickVars, dom, walkVars, parseVars,
                   batch_size, total, start, all_reviews, requests>>

NextFetch ==
    \/ CountNothing \/ CountSome
    \/ PageRaises \/ PageRefused \/ PageParsed \/ PageParsedThenRaises
    \/ LoopEnds \/ Return

SpecFetch == InitFetch /\ [][NextFetch]_vars

\* fetch_reviews runs to its return: no step of it waits on anything but the
\* answer to a request, and each request is under timeout=25
SpecFetchFair == SpecFetch /\ WF_vars(NextFetch)

(***************************************************************************)
(* Claims                                                                  *)
(***************************************************************************)

\* the scheme s begins with, <<>> when none
SchemeOf(s) ==
    IF StartsWithAt(s, Https, 1) THEN Https
    ELSE IF StartsWithAt(s, Http, 1) THEN Http
    ELSE <<>>

\* s begins with the scheme sch followed by exactly two slashes
SchemeThenTwoSlashes(s, sch) ==
    /\ StartsWithAt(s, sch \o <<"/", "/">>, 1)
    /\ ~StartsWithAt(s, sch \o <<"/", "/", "/">>, 1)

NoBackslash(s) == \A i \in 1..Len(s) : s[i] # "BS"

\* C5 as stated: sanitize_review_text applied to the clean text it returned
\* returns that text unchanged, with has_url = FALSE and url_count = 0
C5_Idempotent ==
    pc = "twice" =>
        san2 = [clean |-> san1.clean, has_url |-> FALSE, url_count |-> 0]

\* the inputs claim C6 is about: non-empty, no URL, no marker, no run of
\* newlines, no surrounding whitespace, no trailing comma
C6_Plain(t) ==
    /\ t # <<>>
    /\ \A i \in 1..Len(t) : UrlMatchLen(t, i) = 0 /\ MarkerMatchLen(t, i) = 0
    /\ ~Contains(t, <<"LF", "LF">>)
    /\ Strip(t) = t
    /\ t[Len(t)] # ","

\* C6 as stated: on such an input the clean text is the input itself
C6_RemovesOnlyListed ==
    (pc = "once" /\ C6_Plain(text)) => san1.clean = text

\* C7 as stated: the result ends with exactly one slash, holds no backslash
\* and, when it begins with http: or https:, has the scheme followed by
\* exactly two slashes
C7_Original ==
    pc = "done" =>
        /\ EndsWith(base, Slash) /\ ~EndsWith(base, <<"/", "/">>)
        /\ NoBackslash(base)
        /\ SchemeOf(base) # <<>> => SchemeThenTwoSlashes(base, SchemeOf(base))

\* C7 amended: the result ends with a slash (one or more), holds no
\* backslash and, when the trimmed argument begins with http: or https:,
\* begins with that scheme followed by exactly two slashes; the escaped
\* example of the specification gives https://example.com/curator/1/
C7_Normalized ==
    pc = "done" =>
        /\ EndsWith(base, Slash)
        /\ NoBackslash(base)
        /\ SchemeOf(Strip(raw)) # <<>> =>
               SchemeThenTwoSlashes(base, SchemeOf(Strip(raw)))
        /\ raw = ExampleRaw => base = ExampleBase

\* an escaped argument with a scheme and extra slashes has been normalized
C7_Witness ==
    /\ pc = "done"
    /\ Contains(raw, EscapedSlash)
    /\ StartsWithAt(Strip(raw), Https \o <<"/", "/", "/">>, 1)
    /\ SchemeThenTwoSlashes(base, Https)


(***************************************************************************)
(* Claims about the extractor                                              *)
(***************************************************************************)

Range(f) == {f[i] : i \in DOMAIN f}

RECURSIVE NthAncestor(_, _, _)
\* the k-th ancestor of node n (n itself when k = 0), 0 when there is none
NthAncestor(d, n, k) ==
    IF k = 0 THEN n
    ELSE IF d[n].parent = 0 THEN 0
    ELSE NthAncestor(d, d[n].parent, k - 1)

\* the number of ancestors of node n
Depth(d, n) == Cardinality({k \in 1..Len(d) : NthAncestor(d, n, k) # 0})

\* some class token of node n holds the marker m
TokenHolds(d, n, m) == \E t \in Range(d[n].class) : Contains(t, m)

\* the candidates that are not date-like, by position
Survivors(cands) == {i \in 1..Len(cands) : ~is_date_like(cands[i])}

\* position i of the survivors surv holds the first of the longest of them
FirstLongest(cands, surv, i) ==
    /\ i \in surv
    /\ \A j \in surv :
           \/ Len(cands[j]) < Len(cands[i])
           \/ Len(cands[j]) = Len(cands[i]) /\ i <= j

\* C4: the picker returns the longest candidate that is not date-like, the
\* first collected among several of that length, and the empty string when
\* none survives; candidates of lengths 5, 40, 12 give the 40-length one
C4_LongestSurvivor ==
    pc = "done" =>
        LET surv == Survivors(candidates)
        IN /\ surv = {} => best = <<>>
           /\ \A i \in surv :
                  FirstLongest(candidates, surv, i) => best = candidates[i]
           /\ candidates = <<T_great, T_long, T_fun>> => best = T_long

\* a date-like candidate longer than the text returned was discarded, and a
\* tie between two texts went to the first collected
C4_Witness ==
    /\ pc = "done"
    /\ LET surv == Survivors(candidates)
       IN /\ \E k \in (1..Len(candidates)) \ surv :
                  Len(candidates[k]) > Len(best)
          /\ \E i, j \in surv :
                 /\ i < j
                 /\ candidates[i] # candidates[j]
                 /\ Len(candidates[i]) = Len(candidates[j])
                 /\ FirstLongest(candidates, surv, i)
                 /\ best = candidates[i]

\* node n is a div whose class vocabulary holds "recommend" or "curator"
Qualifies(d, n) ==
    /\ d[n].name = "div"
    /\ TokenHolds(d, n, S_recommend) \/ TokenHolds(d, n, S_curator)

\* the levels, within 14, at which an ancestor of the anchor qualifies
QualifyingLevels(d, n) ==
    {k \in 1..14 : NthAncestor(d, n, k) # 0 /\ Qualifies(d, NthAncestor(d, n, k))}

\* C3: the walk returns the nearest qualifying ancestor within 14 levels and,
\* when there is none, the last ancestor reached: the 14th, or the root of a
\* shallower tree
C3_NearestContainer ==
    pc \in {"located", "done"} =>
        LET qs == QualifyingLevels(dom, link)
            depth == Depth(dom, link)
        IN IF qs # {}
           THEN \E k \in qs :
                    /\ \A j \in qs : k <= j
                    /\ container = NthAncestor(dom, link, k)
           ELSE container = NthAncestor(dom, link, IF depth < 14 THEN depth ELSE 14)

\* two ancestors within 14 levels qualify and the nearer one was returned
C3_Witness ==
    /\ pc = "located"
    /\ Cardinality(QualifyingLevels(dom, link)) = 2
    /\ \E k \in QualifyingLevels(dom, link) :
           /\ k > 1
           /\ \A j \in QualifyingLevels(dom, link) : k <= j
           /\ container = NthAncestor(dom, link, k)

\* the class tokens of the container and of its ancestors, 10 nodes at most
Vocabulary(d, c) ==
    UNION {Range(d[NthAncestor(d, c, k)].class) :
               k \in {j \in 0..9 : NthAncestor(d, c, j) # 0}}

\* some token of the vocabulary holds the marker m
Holds(voc, m) == \E t \in voc : Contains(t, m)

\* C2 as stated: the decision over the vocabulary as a set of class tokens
C2_Original ==
    pc = "done" =>
        LET voc == Vocabulary(dom, container)
        IN rec_type =
               IF S_not_recommended \in voc \/ S_negative \in voc
               THEN "not_recommended"
               ELSE IF S_informational \in voc THEN "informational"
               ELSE "recommended"

\* C2 amended: the sentiment is one of the three labels, decided in fixed
\* priority over the class tokens of the container and its ancestors (10
\* nodes at most): a token holding "not_recommended" or "negative" as a
\* substring gives not_recommended, otherwise a token holding "informational"
\* gives informational, otherwise recommended
C2_Sentiment ==
    pc = "done" =>
        LET voc == Vocabulary(dom, container)
        IN /\ rec_type \in {"recommended", "not_recommended", "informational"}
           /\ rec_type =
                  IF Holds(voc, S_not_recommended) \/ Holds(voc, S_negative)
                  THEN "not_recommended"
                  ELSE IF Holds(voc, S_informational) THEN "informational"
                  ELSE "recommended"

\* a chain carrying both a negative and an informational class within the
\* 10 nodes was classified not_recommended
C2_Witness ==
    /\ pc = "done"
    /\ Holds(Vocabulary(dom, container), S_negative)
    /\ Holds(Vocabulary(dom, container), S_informational)
    /\ rec_type = "not_recommended"

\* the descendants of c, in document order, one of whose class tokens holds pat
Matches(d, c, pat) ==
    SelectSeq(Descendants(d, c), LAMBDA n : TokenHolds(d, n, pat))

RECURSIVE TextsOf(_, _)
\* the non-empty texts of the nodes ns
TextsOf(d, ns) ==
    IF ns = <<>> THEN <<>>
    ELSE (IF GetText(d, Head(ns)) # <<>> THEN <<GetText(d, Head(ns))>> ELSE <<>>)
         \o TextsOf(d, Tail(ns))

\* Phase A as the claim states it: the text of every match, in pattern order
EveryMatch(d, c) ==
    Concat([i \in 1..Len(Selectors) |-> TextsOf(d, Matches(d, c, Selectors[i]))])

\* Phase A as amended: the text of the first match of each pattern
FirstMatches(d, c) ==
    Concat([i \in 1..Len(Selectors) |->
               LET ms == Matches(d, c, Selectors[i])
               IN IF ms = <<>> THEN <<>> ELSE TextsOf(d, <<Head(ms)>>)])

\* C9 as stated: Phase A collects the text of every matching descendant, and
\* Phase B runs only when Phase A collected nothing
C9_Original ==
    pc = "done" =>
        candidates = IF EveryMatch(dom, container) # <<>>
                     THEN EveryMatch(dom, container)
                     ELSE PhaseB(dom, container)

\* C9 amended: Phase A collects, for each pattern in order, the text of the
\* first descendant (document order) whose class matches it, when that text
\* is not empty; Phase B runs only when Phase A collected nothing
C9_FirstMatchPerPattern ==
    pc = "done" =>
        candidates = IF FirstMatches(dom, container) # <<>>
                     THEN FirstMatches(dom, container)
                     ELSE PhaseB(dom, container)

\* two elements match "desc", the second holds the longer text, and the text
\* of the first was returned
C9_Witness ==
    /\ pc = "done"
    /\ LET ms == Matches(dom, container, S_desc)
       IN /\ Len(ms) = 2
          /\ Len(GetText(dom, ms[2])) > Len(GetText(dom, ms[1]))
          /\ candidates = <<GetText(dom, ms[1])>>
          /\ best = GetText(dom, ms[1])

\* the anchors of the fragment that are the first with their id
FirstLinks(d) ==
    LET ls == AppLinks(d)
    IN SelectSeq(ls, LAMBDA n :
           \A m \in Range(ls) : m < n => AppIdOf(d[m].href) # AppIdOf(d[n].href))

\* C1: results never holds two records of one id; the records returned are
\* those built from the first anchor of each id, in the order of discovery
C1_FirstOccurrenceWins ==
    /\ pc \in {"loop", "done"} =>
           \A i, j \in 1..Len(results) :
               results[i].appid = results[j].appid => i = j
    /\ pc = "done" =>
           results = [i \in 1..Len(FirstLinks(dom)) |->
                          BuildRecord(dom, FirstLinks(dom)[i])]

\* an id was referenced by two anchors that give different records, and the
\* fragment gave two records or more
C1_Witness ==
    /\ pc = "done"
    /\ Len(results) >= 2
    /\ \E m, n \in Range(AppLinks(dom)) :
           /\ m < n
           /\ AppIdOf(dom[m].href) = AppIdOf(dom[n].href)
           /\ BuildRecord(dom, m) # BuildRecord(dom, n)
           /\ BuildRecord(dom, m) \in Range(results)

\* the container of the anchor n yields no text candidate
NoCandidate(d, n) == CollectCandidates(d, LocateContainer(d, n)) = <<>>

\* an anchor whose reference is missing or malformed
Malformed(d, n) ==
    d[n].name = "a" /\ (d[n].href = NoHref \/ AppIdOf(d[n].href) = NoMatch)

\* C8 as stated: no record is produced for an anchor whose container is
\* empty or yields no text candidate
C8_Original ==
    pc = "done" =>
        \A n \in Range(AppLinks(dom)) :
            NoCandidate(dom, n) => BuildRecord(dom, n) \notin Range(results)

\* the anchors whose reference is well formed
WellFormed(d) == {n \in 1..Len(d) : d[n].name = "a" /\ ~Malformed(d, n)}

\* C8 amended: an anchor whose reference is missing or malformed is skipped
\* and gives no record, while every well-formed anchor is processed: each id
\* referenced has exactly one record, also when the container is empty or
\* yields no text candidate, and the record of such a container (built from
\* the first anchor of the id) holds an empty review
C8_OnlyMalformedSkipped ==
    pc = "done" =>
        LET ids == {AppIdOf(dom[n].href) : n \in WellFormed(dom)}
        IN /\ {results[i].appid : i \in 1..Len(results)} = ids
           /\ Len(results) = Cardinality(ids)
           /\ \A n \in WellFormed(dom) :
                  (/\ NoCandidate(dom, n)
                   /\ \A m \in WellFormed(dom) :
                          AppIdOf(dom[m].href) = AppIdOf(dom[n].href) => n <= m)
                  => \E i \in 1..Len(results) :
                         /\ results[i].appid = AppIdOf(dom[n].href)
                         /\ results[i].review = <<>>
                         /\ results[i].review_url_count = 0

\* a fragment with a malformed anchor, an anchor whose container yields no
\* candidate and that has its record with an empty review, and another record
\* with a review
C8_Witness ==
    /\ pc = "done"
    /\ \E n \in 1..Len(dom) : Malformed(dom, n)
    /\ \E n \in Range(FirstLinks(dom)) :
           NoCandidate(dom, n) /\ BuildRecord(dom, n) \in Range(results)
    /\ \E i \in 1..Len(results) : results[i].review # <<>>

(***************************************************************************)
(* Claims about the pagination loop                                        *)
(***************************************************************************)

\* ceil(total / batch_size)
PagesOf(t, b) == IF t <= 0 THEN 0 ELSE (t + b - 1) \div b

\* one round of the loop leaves it or advances start by batch_size
C10_RoundAdvances ==
    (pc = "loop" /\ start < total) =>
        (pc' # "loop" \/ start' = start + batch_size)

\* C10 as stated: fetch_reviews returns, each round of its loop leaves the
\* loop or advances start by batch_size, it makes at most
\* ceil(total / batch_size) page requests, and it returns the records
\* collected so far (without the later copies of an id)
C10_Original ==
    /\ <>(pc = "done")
    /\ [][C10_RoundAdvances]_vars
    /\ [](requests <= PagesOf(total, batch_size))
    /\ [](pc = "done" => returned = remove_duplicates(all_reviews))

\* C10 without its clause on the step of start: fetch_reviews returns, after
\* at most ceil(total / batch_size) page requests, the records collected
C10_Terminates ==
    /\ <>(pc = "done")
    /\ [][(pc = "loop" /\ start < total) =>
              (pc' # "loop" \/ start' >= start + batch_size)]_vars
    /\ [](requests <= PagesOf(total, batch_size))
    /\ [](pc = "done" => returned = remove_duplicates(all_reviews))


====
